---- MODULE Spec2Model ----
(***************************************************************************)
(* Model of datatube.stats.Stats (src/datatube/stats.py): a pandas table   *)
(* of (video_id, timestamp, views, rating, likes, dislikes) observations.  *)
(*                                                                         *)
(* A cell is a tagged tuple: <<"na">> (None/NaN/NaT), <<"int", n>>,        *)
(* <<"float", n, d>> (the rational n/d, reduced, d > 0), <<"str", s>>,     *)
(* <<"dt", t, aware>> (a datetime at tick t, with or without tzinfo),      *)
(* <<"bool", b>>, <<"complex", n, d, im>>, <<"td", n, d>>, <<"obj">>.       *)
(* A row of the table is a record of six cells plus its index label.       *)
(* The second half models datatube.dtype (src/datatube/dtype.py):          *)
(* check_dtypes and coerce_dtypes on one column.                           *)
(***************************************************************************)
EXTENDS Integers, Sequences, FiniteSets, TLC

VARIABLES
    store,      \* "none" before Stats(...) is called, then "built", or
                \* "failed" when the constructor raised and no object exists
    data,       \* self._data: the rows, in table order, each with its label
    dtypes,     \* self._data.dtypes: column name -> dtype name
    call,       \* the last call and its arguments
    result,     \* what the last call returned or raised
    file,       \* the .csv file on local storage: absent, or its lines
    given,      \* the caller's table that was handed to the constructor
    view        \* the caller's table obtained from the data property

vars == <<store, data, dtypes, call, result, file, given, view>>

(***************************************************************************)
(* Bounds                                                                  *)
(***************************************************************************)
MaxRows == 2        \* add_row is explored while the table has fewer rows
MaxInitRows == 2    \* longest table handed to the constructor
Now == 2            \* datetime.now(), in ticks; tick Now + 1 is the future
MaxIds == 2         \* most video_ids handed to one to_csv call
MaxLen == 2         \* longest column handed to check_dtypes and coerce_dtypes

(* pd.Int64Dtype() holds -2^63 .. 2^63 - 1; the width is scaled down so    *)
(* that a Python int beyond it is within the inputs.                       *)
Int64Max == 1

(***************************************************************************)
(* Cells                                                                   *)
(***************************************************************************)
NA == <<"na">>
IntCell(n) == <<"int", n>>
FloatCell(n, d) == <<"float", n, d>>
StrCell(s) == <<"str", s>>
DtCell(t, aware) == <<"dt", t, aware>>
BoolCell(b) == <<"bool", b>>
ComplexCell(n, d, im) == <<"complex", n, d, im>>   \* real part n/d, imaginary im
TdCell(n, d) == <<"td", n, d>>                     \* a timedelta of n/d seconds
ObjCell == <<"obj">>                               \* an instance of a custom class
(* a datetime n/d seconds after the epoch; whole seconds are a DtCell *)
FracDtCell(n, d, aware) == IF d = 1 THEN <<"dt", n, aware>> ELSE <<"dt", n, aware, d>>
DtDen(c) == IF Len(c) = 4 THEN c[4] ELSE 1

Tag(c) == c[1]
IsNA(c) == Tag(c) = "na"

RECURSIVE Gcd(_, _)
Gcd(a, b) == IF b = 0 THEN a ELSE Gcd(b, a % b)

(* Python's true division n / d of two non-negative ints, d > 0 *)
TrueDiv(n, d) == LET g == Gcd(n, d) IN FloatCell(n \div g, d \div g)

(* The strings of the model in lexicographic order; position = rank *)
StrOrder == <<"short", "vid_aaaaaaa", "vid_bbbbbbb">>
StrRank(s) == CHOOSE i \in 1..Len(StrOrder) : StrOrder[i] = s

(***************************************************************************)
(* Schema                                                                  *)
(***************************************************************************)
expected_columns == <<"video_id", "timestamp", "views", "rating", "likes", "dislikes">>
ExpectedSet == {expected_columns[i] : i \in 1..Len(expected_columns)}

expected_types ==
    [c \in ExpectedSet |->
        CASE c = "video_id" -> "str"
          [] c = "timestamp" -> "datetime"
          [] c = "rating" -> "numeric"
          [] OTHER -> "int"]

na_allowed == [c \in ExpectedSet |-> c \notin {"video_id", "timestamp"}]

(* the dtypes coerce_dtypes casts to *)
dtype_lookup ==
    [c \in ExpectedSet |->
        CASE c = "video_id" -> "string"
          [] c = "timestamp" -> "datetime64[ns]"
          [] c = "rating" -> "Float64"
          [] OTHER -> "Int64"]

Column(rows, c) == [i \in 1..Len(rows) |-> rows[i][c]]

NoCall == [op |-> "none"]
NoResult == [op |-> "none", status |-> "none", what |-> "", names |-> {},
             missing |-> {}, extra |-> {}, value |-> <<>>]

(* a table in the caller's hands: `aliased` when it is the very object     *)
(* self._data, so that a write to it is a write to the store               *)
NoTable == [bound |-> FALSE, aliased |-> FALSE, rows |-> <<>>]
NoFile == [exists |-> FALSE, lines |-> <<>>]

Init ==
    /\ store = "none"
    /\ data = <<>>
    /\ dtypes = [c \in ExpectedSet |-> "none"]
    /\ call = NoCall
    /\ result = NoResult
    /\ file = NoFile
    /\ given = NoTable
    /\ view = NoTable

(***************************************************************************)
(* check_dtypes / coerce_dtypes                                            *)
(***************************************************************************)
dropna(col) == {i \in DOMAIN col : ~IsNA(col[i])}

IsIntegral(c) == Tag(c) = "int" \/ (Tag(c) = "float" /\ c[3] = 1)

(* Series.convert_dtypes(): the best dtype for the column's cells *)
convert_dtypes(col) ==
    LET present == {col[i] : i \in dropna(col)} IN
    CASE present = {} -> "object"
      [] present # {} /\ \A c \in present : IsIntegral(c) -> "Int64"
      [] (\A c \in present : Tag(c) \in {"int", "float"})
           /\ (\E c \in present : ~IsIntegral(c)) -> "Float64"
      [] present # {} /\ \A c \in present : Tag(c) = "str" -> "string"
      [] present # {} /\ \A c \in present : Tag(c) = "bool" -> "boolean"
      [] present # {} /\ \A c \in present : Tag(c) = "dt" /\ ~c[3] -> "datetime64[ns]"
      [] present # {} /\ \A c \in present : Tag(c) = "dt" /\ c[3] -> "datetime64[ns, UTC]"
      [] OTHER -> "object"

(* pandas.api.types.is_*_dtype, selected by the typespec *)
typecheck(typespec, dtype) ==
    CASE typespec = "int" -> dtype = "Int64"
      [] typespec = "numeric" -> dtype \in {"Int64", "Float64", "boolean"}
      [] typespec = "str" -> dtype = "string"
      [] typespec = "datetime" -> dtype = "datetime64[ns]"

check_dtypes(col, typespec) ==
    ~(~typecheck(typespec, convert_dtypes(col)) /\ dropna(col) # {})

hasnans(col) == \E i \in DOMAIN col : IsNA(col[i])

(* Series.astype(dtype) on one cell of a column that passed check_dtypes *)
astype(c, dtype) ==
    CASE IsNA(c) -> NA
      [] Tag(c) = "int" /\ dtype = "Float64" -> FloatCell(c[2], 1)
      [] Tag(c) = "float" /\ dtype = "Int64" /\ c[3] = 1 -> IntCell(c[2])
      [] Tag(c) = "bool" /\ dtype = "Float64" -> FloatCell(IF c[2] THEN 1 ELSE 0, 1)
      [] OTHER -> c

coerce_dtypes(rows) ==
    [i \in 1..Len(rows) |->
        [c \in ExpectedSet |-> astype(rows[i][c], dtype_lookup[c])]]

(***************************************************************************)
(* Stats.__init__                                                          *)
(***************************************************************************)
(* the first expected column, in order, that fails a check; 0 if none *)
FirstBadColumn(rows) ==
    LET bad(c) == \/ ~check_dtypes(Column(rows, c), expected_types[c])
                  \/ (~na_allowed[c] /\ hasnans(Column(rows, c)))
        S == {k \in 1..Len(expected_columns) : bad(expected_columns[k])}
    IN IF S = {} THEN 0 ELSE CHOOSE k \in S : \A j \in S : k <= j

(* as ColumnMismatch, but with missing columns the extra ones go unnamed *)
ColumnMismatchMissingOnly(columns) ==
    LET missing_columns == ExpectedSet \ columns
        extra_columns == columns \ ExpectedSet
        err == [NoResult EXCEPT !.op = "init", !.status = "ValueError",
                                !.what = "columns"]
    IN IF missing_columns # {}
       THEN [err EXCEPT !.names = {"missing"}, !.missing = missing_columns]
       ELSE [err EXCEPT !.names = {"extra"}, !.extra = extra_columns]

ColumnMismatch(columns) ==
    LET missing_columns == ExpectedSet \ columns
        extra_columns == columns \ ExpectedSet
        err == [NoResult EXCEPT !.op = "init", !.status = "ValueError",
                                !.what = "columns"]
    IN IF missing_columns # {} /\ extra_columns # {}
       THEN [err EXCEPT !.names = {"missing", "extra"},
                        !.missing = missing_columns, !.extra = extra_columns]
       ELSE IF missing_columns # {}
       THEN [err EXCEPT !.names = {"missing"}, !.missing = missing_columns]
       ELSE [err EXCEPT !.names = {"extra"}, !.extra = extra_columns]

ConstructResult(table) ==
    IF table.columns # ExpectedSet THEN ColumnMismatch(table.columns)
    ELSE LET k == FirstBadColumn(table.rows) IN
         IF k = 0 THEN [NoResult EXCEPT !.op = "init", !.status = "ok"]
         ELSE LET c == expected_columns[k] IN
              IF ~check_dtypes(Column(table.rows, c), expected_types[c])
              THEN [NoResult EXCEPT !.op = "init", !.status = "TypeError", !.what = c]
              ELSE [NoResult EXCEPT !.op = "init", !.status = "ValueError", !.what = c]

Labelled(table) ==
    [i \in 1..Len(table.rows) |-> [label |-> table.index[i], row |-> table.rows[i]]]

(* the caller's table after Stats(data): coerce_dtypes works on            *)
(* data.copy() and line 105 selects the columns into a new table, so the   *)
(* store does not hold the caller's object                                 *)
init_argument(rows) == [bound |-> TRUE, aliased |-> FALSE, rows |-> rows]

(* Stats(data): on success self._data is the coerced table, its rows, row  *)
(* order and index labels as given                                         *)
Construct(table) ==
    /\ store = "none"
    /\ call' = [op |-> "init", table |-> table]
    /\ result' = ConstructResult(table)
    /\ given' = init_argument(Labelled(table))
    /\ UNCHANGED <<file, view>>
    /\ IF result'.status = "ok"
       THEN /\ store' = "built"
            /\ data' = LET coerced == coerce_dtypes(table.rows) IN
                       [i \in 1..Len(table.rows) |->
                          [label |-> table.index[i], row |-> coerced[i]]]
            /\ dtypes' = dtype_lookup
       ELSE store' = "failed" /\ UNCHANGED <<data, dtypes>>

(* Stats(): an empty table with the expected columns and dtypes *)
ConstructEmpty ==
    /\ store = "none"
    /\ call' = [op |-> "init_empty"]
    /\ result' = [NoResult EXCEPT !.op = "init", !.status = "ok"]
    /\ store' = "built"
    /\ data' = <<>>
    /\ dtypes' = dtype_lookup
    /\ UNCHANGED <<file, given, view>>

(***************************************************************************)
(* Stats.add_row                                                           *)
(***************************************************************************)
Raise(status, what) ==
    [NoResult EXCEPT !.op = "add_row", !.status = status, !.what = what]

(* as RatingInRange, without the upper limit *)
RatingNonNegative(c) == 0 <= c[2]

(* rating within [0, 5]; an int or a float n/d *)
RatingInRange(c) ==
    IF Tag(c) = "int" THEN 0 <= c[2] /\ c[2] <= 5
    ELSE 0 <= c[2] /\ c[2] <= 5 * c[3]

(* lines 155-205: the argument checks, in order; "ok" if all pass *)
Validate(a) ==
    CASE Tag(a.video_id) # "str" -> Raise("TypeError", "video_id")
      [] Tag(a.video_id) = "str" /\ Len(a.video_id[2]) # 11 ->
            Raise("ValueError", "video_id")
      [] OTHER ->
    CASE Tag(a.timestamp) # "dt" -> Raise("TypeError", "timestamp")
      [] Tag(a.timestamp) = "dt" /\ a.timestamp[3] ->
            \* timestamp > datetime.now(): aware against naive
            Raise("TypeError", "timestamp > current_time")
      [] Tag(a.timestamp) = "dt" /\ ~a.timestamp[3] /\ a.timestamp[2] > Now ->
            Raise("ValueError", "timestamp")
      [] OTHER ->
    CASE Tag(a.views) # "int" -> Raise("TypeError", "views")
      [] Tag(a.views) = "int" /\ a.views[2] < 0 -> Raise("ValueError", "views")
      [] OTHER ->
    CASE ~IsNA(a.rating) /\ Tag(a.rating) \notin {"int", "float"} ->
            Raise("TypeError", "rating")
      [] Tag(a.rating) \in {"int", "float"} /\ ~RatingInRange(a.rating) ->
            Raise("ValueError", "rating")
      [] OTHER ->
    CASE ~IsNA(a.likes) /\ Tag(a.likes) # "int" -> Raise("TypeError", "likes")
      [] Tag(a.likes) = "int" /\ a.likes[2] < 0 -> Raise("ValueError", "likes")
      [] OTHER ->
    CASE ~IsNA(a.dislikes) /\ Tag(a.dislikes) # "int" ->
            Raise("TypeError", "dislikes")
      [] Tag(a.dislikes) = "int" /\ a.dislikes[2] < 0 ->
            Raise("ValueError", "dislikes")
      [] OTHER -> Raise("ok", "")

(* lines 208-209: some row has this video_id and this timestamp *)
RowExists(rows, video_id, timestamp) ==
    \E i \in 1..Len(rows) :
        /\ rows[i].row.video_id = video_id
        /\ rows[i].row.timestamp = timestamp

(* line 215-216 *)
DerivesRating(a) == IsNA(a.rating) /\ ~(IsNA(a.likes) \/ IsNA(a.dislikes))

(* self._data.loc[label] = new_row: every row carrying the label is set;   *)
(* the table is enlarged only when no row carries it                       *)
LocSet(rows, label, new_row) ==
    IF \E i \in 1..Len(rows) : rows[i].label = label
    THEN [i \in 1..Len(rows) |->
            IF rows[i].label = label THEN [rows[i] EXCEPT !.row = new_row]
            ELSE rows[i]]
    ELSE Append(rows, [label |-> label, row |-> new_row])

(* astype of a Python int to Int64 overflows beyond the width *)
Overflows(c, dtype) ==
    dtype = "Int64" /\ Tag(c) = "int" /\ (c[2] > Int64Max \/ c[2] < -Int64Max - 1)

(* lines 228-229: the first column, in table order, whose restore fails *)
FirstFailingRestore(rows, old_dtypes) ==
    LET S == {k \in 1..Len(expected_columns) :
                \E i \in 1..Len(rows) :
                    Overflows(rows[i].row[expected_columns[k]],
                              old_dtypes[expected_columns[k]])}
    IN IF S = {} THEN 0 ELSE CHOOSE k \in S : \A j \in S : k <= j

RestoreDtypes(rows, old_dtypes) ==
    [i \in 1..Len(rows) |->
        [rows[i] EXCEPT !.row =
            [c \in ExpectedSet |-> astype(rows[i].row[c], old_dtypes[c])]]]

KeyLeq(r1, r2) ==
    \/ StrRank(r1.row.video_id[2]) < StrRank(r2.row.video_id[2])
    \/ /\ r1.row.video_id = r2.row.video_id
       /\ r1.row.timestamp[2] <= r2.row.timestamp[2]

(* insert r after the last element that is not greater: stable *)
RECURSIVE InsertSorted(_, _)
InsertSorted(sorted, r) ==
    IF sorted = <<>> THEN <<r>>
    ELSE IF KeyLeq(sorted[Len(sorted)], r) THEN Append(sorted, r)
    ELSE Append(InsertSorted(SubSeq(sorted, 1, Len(sorted) - 1), r),
                sorted[Len(sorted)])

(* DataFrame.sort_values(["video_id", "timestamp"]): rows keep their labels *)
RECURSIVE sort_values(_)
sort_values(rows) ==
    IF rows = <<>> THEN <<>>
    ELSE InsertSorted(sort_values(SubSeq(rows, 1, Len(rows) - 1)), rows[Len(rows)])

AddRow(a) ==
    /\ store = "built"
    /\ Len(data) < MaxRows
    /\ call' = [op |-> "add_row", args |-> a]
    /\ store' = store
    /\ UNCHANGED <<file, given, view>>
    /\ LET v == Validate(a) IN
       IF v.status # "ok"
       THEN result' = v /\ UNCHANGED <<data, dtypes>>
       ELSE IF RowExists(data, a.video_id, a.timestamp)
       THEN result' = Raise("ValueError", "duplicate") /\ UNCHANGED <<data, dtypes>>
       ELSE IF DerivesRating(a) /\ a.likes[2] + a.dislikes[2] = 0
       THEN result' = Raise("ZeroDivisionError", "rating")
            /\ UNCHANGED <<data, dtypes>>
       ELSE
         LET rating == IF DerivesRating(a)
                       THEN TrueDiv(5 * a.likes[2], a.likes[2] + a.dislikes[2])
                       ELSE a.rating
             new_row == [a EXCEPT !.rating = rating]
             old_dtypes == dtypes
             added == LocSet(data, Len(data), new_row)
             k == FirstFailingRestore(added, old_dtypes)
         IN IF k # 0
            THEN /\ result' = Raise("OverflowError", expected_columns[k])
                 /\ data' = RestoreDtypes(added,
                               [c \in ExpectedSet |->
                                  IF \E j \in 1..(k - 1) : expected_columns[j] = c
                                  THEN old_dtypes[c] ELSE "object"])
                 /\ dtypes' = [c \in ExpectedSet |->
                                  IF \E j \in 1..(k - 1) : expected_columns[j] = c
                                  THEN old_dtypes[c] ELSE "object"]
            ELSE /\ result' = Raise("ok", "")
                 /\ data' = sort_values(RestoreDtypes(added, old_dtypes))
                 /\ dtypes' = old_dtypes

(***************************************************************************)
(* Stats.most_recent                                                       *)
(***************************************************************************)
VideoIds(rows) == {rows[i].row.video_id : i \in 1..Len(rows)}

(* the group keys of groupby("video_id"), in sorted order *)
RECURSIVE SortedKeys(_)
SortedKeys(ids) ==
    IF ids = {} THEN <<>>
    ELSE LET m == CHOOSE x \in ids : \A y \in ids : StrRank(x[2]) <= StrRank(y[2])
         IN <<m>> \o SortedKeys(ids \ {m})

(* groupby("video_id")["timestamp"].idxmax(): per group, the index LABEL of *)
(* the first row holding the group's greatest timestamp                     *)
idxmax(rows, id) ==
    LET G == {i \in 1..Len(rows) : rows[i].row.video_id = id}
        top == {i \in G : \A j \in G : rows[j].row.timestamp[2] <= rows[i].row.timestamp[2]}
        first == CHOOSE i \in top : \A j \in top : i <= j
    IN rows[first].label

(* self._data.iloc[indices]: the labels are used as row POSITIONS; then     *)
(* set_index("video_id").T.to_dict(): a later row replaces an earlier one   *)
(* under the same video_id                                                  *)
most_recent(rows) ==
    LET keys == SortedKeys(VideoIds(rows))
        indices == [k \in 1..Len(keys) |-> idxmax(rows, keys[k])]
    IN IF \E k \in 1..Len(indices) : indices[k] >= Len(rows)
       THEN [NoResult EXCEPT !.op = "most_recent", !.status = "IndexError"]
       ELSE LET subset == [k \in 1..Len(indices) |-> rows[indices[k] + 1].row]
                ids == {subset[k].video_id[2] : k \in 1..Len(subset)}
                last(id) == CHOOSE k \in 1..Len(subset) :
                               /\ subset[k].video_id[2] = id
                               /\ \A j \in 1..Len(subset) :
                                     subset[j].video_id[2] = id => j <= k
            IN [NoResult EXCEPT !.op = "most_recent", !.status = "ok",
                                !.value = [id \in ids |-> subset[last(id)]]]

MostRecent ==
    /\ store = "built"
    /\ data # <<>>
    /\ call' = [op |-> "most_recent"]
    /\ result' = most_recent(data)
    /\ UNCHANGED <<store, data, dtypes, file, given, view>>

(***************************************************************************)
(* Inputs                                                                  *)
(***************************************************************************)
GoodIds == {StrCell("vid_aaaaaaa"), StrCell("vid_bbbbbbb")}
Row(v, t, n, r, l, d) ==
    [video_id |-> v, timestamp |-> t, views |-> n, rating |-> r,
     likes |-> l, dislikes |-> d]

(* calls of add_row that pass every argument check *)
GoodArgs ==
    {Row(v, DtCell(t, FALSE), IntCell(0), rld[1], rld[2], rld[3]) :
        v \in GoodIds, t \in 1..Now,
        rld \in {<<NA, NA, NA>>, <<NA, IntCell(0), IntCell(0)>>,
                 <<NA, IntCell(1), IntCell(0)>>, <<NA, IntCell(1), IntCell(1)>>,
                 <<NA, IntCell(1), NA>>, <<FloatCell(9, 2), IntCell(1), IntCell(1)>>,
                 <<FloatCell(9, 2), NA, NA>>}}

(* calls of add_row with one argument out of the ordinary *)
OddArgs ==
    LET base == Row(StrCell("vid_aaaaaaa"), DtCell(1, FALSE), IntCell(0), NA,
                    IntCell(1), IntCell(1))
    IN {[base EXCEPT !.video_id = x] : x \in {StrCell("short"), IntCell(7), NA}}
       \cup {[base EXCEPT !.timestamp = x] :
               x \in {DtCell(1, TRUE), DtCell(Now + 1, FALSE), DtCell(Now + 1, TRUE),
                      StrCell("short")}}
       \cup {[base EXCEPT !.views = x] :
               x \in {IntCell(-1), IntCell(Int64Max + 1), FloatCell(1, 2), NA}}
       \cup {[base EXCEPT !.rating = x] :
               x \in {IntCell(3), FloatCell(11, 2), IntCell(-1), StrCell("short")}}
       \cup {[base EXCEPT !.likes = x] :
               x \in {IntCell(-1), IntCell(Int64Max + 1), StrCell("short")}}
       \cup {[base EXCEPT !.dislikes = x] : x \in {IntCell(-1), StrCell("short")}}

AddRowArgs == GoodArgs \cup OddArgs

(* rows of the tables handed to the constructor *)
TableRows ==
    {Row(v, DtCell(t, FALSE), IntCell(1), FloatCell(9, 2), l, IntCell(0)) :
        v \in GoodIds, t \in 1..Now, l \in {NA, IntCell(1)}}
    \cup {Row(StrCell("short"), DtCell(1, FALSE), IntCell(1), FloatCell(9, 2), NA, IntCell(0)),
          Row(StrCell("vid_aaaaaaa"), DtCell(1, FALSE), IntCell(-1), FloatCell(9, 2), NA, IntCell(0)),
          Row(StrCell("vid_aaaaaaa"), DtCell(1, TRUE), IntCell(1), FloatCell(9, 2), NA, IntCell(0)),
          Row(StrCell("vid_aaaaaaa"), DtCell(2, TRUE), IntCell(1), FloatCell(9, 2), NA, IntCell(0)),
          Row(NA, DtCell(1, FALSE), IntCell(1), FloatCell(9, 2), NA, IntCell(0)),
          Row(StrCell("vid_aaaaaaa"), NA, IntCell(1), FloatCell(9, 2), NA, IntCell(0)),
          \* a missing value in views; data of another type in a column
          Row(StrCell("vid_aaaaaaa"), DtCell(1, FALSE), NA, FloatCell(9, 2), NA, IntCell(0)),
          Row(StrCell("vid_aaaaaaa"), DtCell(1, FALSE), IntCell(1), IntCell(4), NA, IntCell(0)),
          Row(StrCell("vid_aaaaaaa"), DtCell(1, FALSE), IntCell(1), BoolCell(TRUE), NA, IntCell(0)),
          Row(StrCell("vid_aaaaaaa"), DtCell(1, FALSE), FloatCell(1, 1), FloatCell(9, 2), NA, IntCell(0)),
          Row(StrCell("vid_aaaaaaa"), DtCell(1, FALSE), StrCell("short"), FloatCell(9, 2), NA, IntCell(0)),
          Row(StrCell("vid_aaaaaaa"), IntCell(1), IntCell(1), FloatCell(9, 2), NA, IntCell(0))}

(* index labels of such a table: the default 0..n-1, shifted, or reversed *)
Indexes(n) ==
    {[i \in 1..n |-> i - 1], [i \in 1..n |-> i], [i \in 1..n |-> n - i]}

Tables ==
    UNION {{[columns |-> ExpectedSet, index |-> ix, rows |-> rows] :
                rows \in [1..n -> TableRows], ix \in Indexes(n)} :
           n \in 0..MaxInitRows}

(* tables whose column names are not the expected ones; __init__ raises    *)
(* before it reads a cell of them                                          *)
AllColumns == ExpectedSet \cup {"extra_column", "extra_column_2"}

MismatchedTables ==
    {[columns |-> cols, index |-> <<>>, rows |-> <<>>] :
        cols \in (SUBSET AllColumns) \ {ExpectedSet}}

(***************************************************************************)
(* Stats.to_csv                                                            *)
(***************************************************************************)
(* DataFrame.to_csv: the text of one cell; a missing value is an empty     *)
(* field, a float n/d is written "n/d" for its shortest decimal repr       *)
Field(c) ==
    CASE IsNA(c) -> ""
      [] Tag(c) = "int" -> ToString(c[2])
      [] Tag(c) = "float" -> ToString(c[2]) \o "/" \o ToString(c[3])
      [] Tag(c) = "str" -> c[2]
      [] Tag(c) = "dt" -> "T" \o ToString(c[2]) \o (IF c[3] THEN "+00:00" ELSE "")
      [] Tag(c) = "bool" -> IF c[2] THEN "True" ELSE "False"

(* index=False: the lines carry the six columns and no label *)
WriteLines(rows) ==
    [i \in 1..Len(rows) |-> [c \in ExpectedSet |-> Field(rows[i].row[c])]]

CsvRaise(op, status, what) ==
    [NoResult EXCEPT !.op = op, !.status = status, !.what = what]

(* as CheckId, without the test that the id is in the data *)
CheckIdFormOnly(v_id, rows) ==
    IF Tag(v_id) # "str" THEN "TypeError"
    ELSE IF Len(v_id[2]) # 11 THEN "ValueError"
    ELSE "ok"

(* lines 247-255: the checks of one supplied video_id *)
CheckId(v_id, rows) ==
    IF Tag(v_id) # "str" THEN "TypeError"
    ELSE IF Len(v_id[2]) # 11 THEN "ValueError"
    ELSE IF v_id \notin VideoIds(rows) THEN "ValueError"
    ELSE "ok"

(* line 246: the first supplied id, in order, that fails; 0 if none *)
FirstBadId(video_ids, rows) ==
    LET S == {k \in 1..Len(video_ids) : CheckId(video_ids[k], rows) # "ok"}
    IN IF S = {} THEN 0 ELSE CHOOSE k \in S : \A j \in S : k <= j

(* self._data[self._data["video_id"].isin(video_ids)] *)
isin(rows, video_ids) ==
    LET ids == {video_ids[k] : k \in 1..Len(video_ids)}
        keep(r) == r.row.video_id \in ids
    IN SelectSeq(rows, keep)

ToCsv(csv_path, video_ids) ==
    /\ store = "built"
    /\ call' = [op |-> "to_csv", csv_path |-> csv_path, video_ids |-> video_ids]
    /\ UNCHANGED <<store, data, dtypes, given, view>>
    /\ IF csv_path.type # "Path"
       THEN result' = CsvRaise("to_csv", "TypeError", "csv_path") /\ UNCHANGED file
       ELSE IF csv_path.suffix # ".csv"
       THEN result' = CsvRaise("to_csv", "ValueError", "csv_path") /\ UNCHANGED file
       ELSE LET k == FirstBadId(video_ids, data) IN
            IF k # 0
            THEN /\ result' = CsvRaise("to_csv", CheckId(video_ids[k], data), "video_id")
                 /\ UNCHANGED file
            ELSE /\ result' = CsvRaise("to_csv", "ok", "")
                 /\ file' = [exists |-> TRUE,
                             lines |-> IF Len(video_ids) > 0
                                       THEN WriteLines(isin(data, video_ids))
                                       ELSE WriteLines(data)]

(***************************************************************************)
(* Stats.from_csv                                                          *)
(***************************************************************************)
ParseError == <<"error">>

(* the floats and the ticks a field of the file can spell *)
CsvFloats == {TrueDiv(n, d) : n \in 0..11, d \in 1..2}
CsvTicks == 0..(Now + 1)

(* pd.read_csv(parse_dates=["timestamp"], dtype=dtypes): one field read as *)
(* its column's dtype; an int64 column takes no empty field and no integer *)
(* beyond its width                                                        *)
read_field(c, text) ==
    CASE c = "video_id" -> IF text = "" THEN NA ELSE StrCell(text)
      [] c = "timestamp" ->
            IF text = "" THEN NA
            ELSE IF \E t \in CsvTicks, aware \in BOOLEAN : Field(DtCell(t, aware)) = text
            THEN CHOOSE x \in {DtCell(t, aware) : t \in CsvTicks, aware \in BOOLEAN} :
                     Field(x) = text
            ELSE StrCell(text)
      [] c = "rating" ->
            IF text = "" THEN NA
            ELSE IF \E x \in CsvFloats : Field(x) = text
            THEN CHOOSE x \in CsvFloats : Field(x) = text
            ELSE ParseError
      [] OTHER ->
            IF \E n \in (-Int64Max - 1)..Int64Max : ToString(n) = text
            THEN IntCell(CHOOSE n \in (-Int64Max - 1)..Int64Max : ToString(n) = text)
            ELSE ParseError

read_csv(lines) ==
    [i \in 1..Len(lines) |-> [c \in ExpectedSet |-> read_field(c, lines[i][c])]]

(* lines 115-130; the one file of the model is at the .csv path *)
from_csv(csv_path, f) ==
    IF csv_path.type # "Path" THEN CsvRaise("from_csv", "TypeError", "csv_path")
    ELSE IF ~(csv_path.suffix = ".csv" /\ f.exists)
    THEN CsvRaise("from_csv", "ValueError", "csv_path")
    ELSE LET rows == read_csv(f.lines) IN
         IF \E i \in 1..Len(rows) : \E c \in ExpectedSet : Tag(rows[i][c]) = "error"
         THEN CsvRaise("from_csv", "ValueError", "read_csv")
         ELSE LET saved == [columns |-> ExpectedSet,
                            index |-> [i \in 1..Len(rows) |-> i - 1],
                            rows |-> rows]
                  r == ConstructResult(saved)
              IN IF r.status = "ok"
                 THEN [r EXCEPT !.op = "from_csv", !.value = coerce_dtypes(rows)]
                 ELSE [r EXCEPT !.op = "from_csv"]

(* Stats.from_csv(csv_path): a classmethod; result.value holds the rows of *)
(* the store it returns                                                    *)
FromCsv(csv_path) ==
    /\ call' = [op |-> "from_csv", csv_path |-> csv_path]
    /\ result' = from_csv(csv_path, file)
    /\ UNCHANGED <<store, data, dtypes, file, given, view>>

(***************************************************************************)
(* Stats.data, and the caller's writes to the tables in its hands          *)
(***************************************************************************)
(* as data_property, had it returned self._data itself *)
data_property_no_copy(rows) == [bound |-> TRUE, aliased |-> TRUE, rows |-> rows]

(* line 139: self._data.copy() *)
data_property(rows) == [bound |-> TRUE, aliased |-> FALSE, rows |-> rows]

DataAccessor ==
    /\ store = "built"
    /\ call' = [op |-> "data"]
    /\ result' = [NoResult EXCEPT !.op = "data", !.status = "ok"]
    /\ view' = data_property(data)
    /\ UNCHANGED <<store, data, dtypes, file, given>>

(* the caller's df.loc[label, "views"] = -1 on row i of a table *)
SetViews(rows, i) == [rows EXCEPT ![i].row.views = IntCell(-1)]

MutateView ==
    /\ store = "built" /\ view.bound
    /\ \E i \in 1..Len(view.rows) :
          /\ view.rows[i].row.views # IntCell(-1)
          /\ view' = [view EXCEPT !.rows = SetViews(view.rows, i)]
          /\ IF view.aliased THEN data' = SetViews(data, i) ELSE UNCHANGED data
    /\ call' = [op |-> "mutate_view"]
    /\ result' = [NoResult EXCEPT !.op = "mutate_view"]
    /\ UNCHANGED <<store, dtypes, file, given>>

MutateGiven ==
    /\ store = "built" /\ given.bound
    /\ \E i \in 1..Len(given.rows) :
          /\ given.rows[i].row.views # IntCell(-1)
          /\ given' = [given EXCEPT !.rows = SetViews(given.rows, i)]
          /\ IF given.aliased THEN data' = SetViews(data, i) ELSE UNCHANGED data
    /\ call' = [op |-> "mutate_given"]
    /\ result' = [NoResult EXCEPT !.op = "mutate_given"]
    /\ UNCHANGED <<store, dtypes, file, view>>

(***************************************************************************)
(* datatube.dtype (src/datatube/dtype.py): a column is a pandas Series,    *)
(* [storage |-> its physical dtype, cells |-> its elements]. In object     *)
(* storage a missing cell is None; elsewhere it is NaN or NaT.             *)
(***************************************************************************)
Present(cells) == {cells[i] : i \in dropna(cells)}
Tags(cells) == {Tag(c) : c \in Present(cells)}

(* a number held in float64 or complex128 storage *)
AsFloat(c) == IF Tag(c) = "int" THEN FloatCell(c[2], 1) ELSE c
AsComplex(c) ==
    CASE Tag(c) = "int" -> ComplexCell(c[2], 1, 0)
      [] Tag(c) = "float" -> ComplexCell(c[2], c[3], 0)
      [] OTHER -> c

(* pandas' lib.maybe_convert_objects on the elements of an object array:   *)
(* the narrowest storage that holds them all; null_storage is the storage  *)
(* of an array of missing values alone                                     *)
maybe_convert_objects(cells, null_storage) ==
    LET T == Tags(cells) IN
    CASE T = {} ->
            [storage |-> IF cells = <<>> THEN "object" ELSE null_storage, cells |-> cells]
      [] T = {"int"} /\ ~hasnans(cells) -> [storage |-> "int64", cells |-> cells]
      [] T # {} /\ T \subseteq {"int", "float"} /\ (hasnans(cells) \/ "float" \in T) ->
            [storage |-> "float64",
             cells |-> [i \in DOMAIN cells |-> AsFloat(cells[i])]]
      [] T \subseteq {"int", "float", "complex"} /\ "complex" \in T ->
            [storage |-> "complex128",
             cells |-> [i \in DOMAIN cells |-> AsComplex(cells[i])]]
      [] T = {"bool"} /\ ~hasnans(cells) -> [storage |-> "bool", cells |-> cells]
      [] T = {"dt"} /\ (\A c \in Present(cells) : ~c[3]) ->
            [storage |-> "datetime64[ns]", cells |-> cells]
      [] T = {"dt"} /\ (\A c \in Present(cells) : c[3]) ->
            [storage |-> "datetime64[ns, UTC]", cells |-> cells]
      [] T = {"td"} -> [storage |-> "timedelta64[ns]", cells |-> cells]
      [] OTHER -> [storage |-> "object", cells |-> cells]

(* Series.infer_objects(): only object storage is looked into *)
infer_objects(column) ==
    IF column.storage = "object" THEN maybe_convert_objects(column.cells, "object")
    ELSE column

(* Series.convert_dtypes() of a column outside complex storage: the dtype  *)
(* of the result. Floats that are all whole (none at all included) become  *)
(* Int64; an object column of strings becomes string, of bools boolean     *)
series_convert_dtypes(column) ==
    LET inferred == infer_objects(column)
        T == Tags(inferred.cells)
    IN CASE inferred.storage = "object" /\ T = {"str"} -> "string"
         [] inferred.storage = "object" /\ T = {"bool"} -> "boolean"
         [] inferred.storage = "int64" -> "Int64"
         [] inferred.storage = "float64" ->
               IF \A c \in Present(inferred.cells) : IsIntegral(c)
               THEN "Int64" ELSE "Float64"
         [] inferred.storage = "bool" -> "boolean"
         [] OTHER -> inferred.storage

(* as to_datetime_succeeds, had utc=True been left out: datetimes with and  *)
(* without timezone do not mix                                             *)
to_datetime_without_utc(cells) ==
    /\ \A c \in Present(cells) : Tag(c) \in {"dt", "int", "float"}
    /\ \A c1, c2 \in Present(cells) :
          (Tag(c1) = "dt" /\ Tag(c2) = "dt") => c1[3] = c2[3]

(* pd.to_datetime(series, utc=True) on an object column returns: datetimes *)
(* and numbers convert, text is parsed, anything else raises TypeError or  *)
(* ValueError                                                              *)
to_datetime_succeeds(cells) ==
    \A c \in Present(cells) :
        \/ Tag(c) \in {"dt", "int", "float"}
        \/ Tag(c) = "str" /\ Tag(read_field("timestamp", c[2])) = "dt"

(* as to_integer, without the test that the real part is whole *)
to_integer_real_only(x) == IsNA(x) \/ x[4] = 0

(* lines 160-172: the element tests of the complex case; TRUE when the     *)
(* function returns, FALSE when it raises ValueError                       *)
to_integer(x) == IsNA(x) \/ (x[4] = 0 /\ x[3] = 1)
to_float(x) == IsNA(x) \/ x[4] = 0

DtypeError(status) == [op |-> "check_dtypes", status |-> status, value |-> "none"]
DtypeIs(type) == [op |-> "check_dtypes", status |-> "ok", value |-> type]

(* lines 157-209 *)
get_series_dtype(series) ==
    IF series.storage = "complex128"
    THEN IF \A i \in DOMAIN series.cells : to_integer(series.cells[i]) THEN DtypeIs("int")
         ELSE IF \A i \in DOMAIN series.cells : to_float(series.cells[i]) THEN DtypeIs("float")
         ELSE DtypeIs("complex")
    ELSE LET dtype == series_convert_dtypes(series) IN
         CASE dtype = "object" ->
                 IF dropna(series.cells) = {} THEN DtypeIs("object")
                 ELSE IF to_datetime_succeeds(series.cells) THEN DtypeIs("datetime")
                 ELSE DtypeIs("object")
           [] dtype = "Int64" -> DtypeIs("int")
           [] dtype = "Float64" -> DtypeIs("float")
           [] dtype = "string" -> DtypeIs("str")
           [] dtype = "boolean" -> DtypeIs("bool")
           [] dtype \in {"datetime64[ns]", "datetime64[ns, UTC]"} -> DtypeIs("datetime")
           [] dtype = "timedelta64[ns]" -> DtypeIs("timedelta")
           [] OTHER -> DtypeError("TypeError")  \* could not interpret series dtype

(* check_dtypes(series): the column is call.column *)
CheckDtypes ==
    /\ call.op = "column"
    /\ result' = get_series_dtype(call.column)
    /\ UNCHANGED <<store, data, dtypes, call, file, given, view>>

(* check_dtypes(series, typespec) for one type, lines 242-243 *)
CheckDtypesIs(typespec) ==
    /\ call.op = "column"
    /\ call' = [call EXCEPT !.typespec = typespec]
    /\ result' = LET dtype == get_series_dtype(call.column)
                 IN IF dtype.status # "ok" THEN dtype
                    ELSE [op |-> "check_dtypes_is", status |-> "ok",
                          value |-> dtype.value = typespec]
    /\ UNCHANGED <<store, data, dtypes, file, given, view>>

(* the caller's column with one more element, a missing one: elements that *)
(* cannot sit beside NaN move to wider storage                             *)
with_missing(column) ==
    CASE column.storage = "int64" ->
            [storage |-> "float64",
             cells |-> Append([i \in DOMAIN column.cells |-> AsFloat(column.cells[i])], NA)]
      [] column.storage = "bool" ->
            [storage |-> "object", cells |-> Append(column.cells, NA)]
      [] OTHER -> [column EXCEPT !.cells = Append(column.cells, NA)]

AppendMissing ==
    /\ call.op = "column"
    /\ Len(call.column.cells) < MaxLen
    /\ call' = [call EXCEPT !.column = with_missing(call.column)]
    /\ result' = [op |-> "append", status |-> "ok", value |-> "none"]
    /\ UNCHANGED <<store, data, dtypes, file, given, view>>

(***************************************************************************)
(* CONVERSIONS and _coerce_column                                          *)
(***************************************************************************)
Types == {"int", "float", "complex", "str", "bool", "datetime", "timedelta", "object"}

(* what a conversion of one element gives besides a cell: an exception,    *)
(* or pd.NA                                                                *)
Exc(kind) == <<"raise", kind>>
PdNA == <<"pd.NA">>
IsCell(r) == Tag(r) \notin {"raise", "pd.NA"}

(* the integer a string spells, if it spells one *)
SpellsInt(text) == \E n \in -9..9 : ToString(n) = text
IntOfText(text) == CHOOSE n \in -9..9 : ToString(n) = text

Trunc(n, d) == IF n >= 0 THEN n \div d ELSE -((-n) \div d)
BoolInt(b) == IF b THEN 1 ELSE 0

(* Python's int(x), float(x), complex(x), str(x), bool(x) *)
py_int(x) ==
    CASE Tag(x) = "int" -> x
      [] Tag(x) = "float" -> IntCell(Trunc(x[2], x[3]))
      [] Tag(x) = "bool" -> IntCell(BoolInt(x[2]))
      [] Tag(x) = "str" -> IF SpellsInt(x[2]) THEN IntCell(IntOfText(x[2]))
                           ELSE Exc("ValueError")
      [] OTHER -> Exc("TypeError")

py_float(x) ==
    CASE Tag(x) = "int" -> FloatCell(x[2], 1)
      [] Tag(x) = "float" -> x
      [] Tag(x) = "bool" -> FloatCell(BoolInt(x[2]), 1)
      [] Tag(x) = "str" -> IF SpellsInt(x[2]) THEN FloatCell(IntOfText(x[2]), 1)
                           ELSE Exc("ValueError")
      [] OTHER -> Exc("TypeError")

py_complex(x) ==
    CASE Tag(x) = "int" -> ComplexCell(x[2], 1, 0)
      [] Tag(x) = "float" -> ComplexCell(x[2], x[3], 0)
      [] Tag(x) = "bool" -> ComplexCell(BoolInt(x[2]), 1, 0)
      [] Tag(x) = "complex" -> x
      [] Tag(x) = "str" -> IF SpellsInt(x[2]) THEN ComplexCell(IntOfText(x[2]), 1, 0)
                           ELSE Exc("ValueError")
      [] OTHER -> Exc("TypeError")

py_str(x) ==
    CASE Tag(x) = "int" -> StrCell(ToString(x[2]))
      [] Tag(x) = "float" -> StrCell(ToString(x[2]) \o "/" \o ToString(x[3]))
      [] Tag(x) = "complex" ->
            StrCell("(" \o ToString(x[2]) \o "/" \o ToString(x[3]) \o "+"
                        \o ToString(x[4]) \o "j)")
      [] Tag(x) = "str" -> x
      [] Tag(x) = "bool" -> StrCell(IF x[2] THEN "True" ELSE "False")
      [] Tag(x) = "dt" ->
            StrCell("T" \o ToString(x[2]) \o "/" \o ToString(DtDen(x))
                        \o (IF x[3] THEN "+00:00" ELSE ""))
      [] Tag(x) = "td" -> StrCell("D" \o ToString(x[2]) \o "/" \o ToString(x[3]))
      [] OTHER -> StrCell("<object>")

py_bool(x) ==
    CASE Tag(x) \in {"int", "float", "td"} -> BoolCell(x[2] # 0)
      [] Tag(x) = "complex" -> BoolCell(x[2] # 0 \/ x[4] # 0)
      [] Tag(x) = "bool" -> x
      [] Tag(x) = "str" -> BoolCell(x[2] # "")
      [] OTHER -> BoolCell(TRUE)

(* x == 0 or x == 1, for a number x *)
IsZeroOrOne(x) ==
    CASE Tag(x) = "int" -> x[2] \in {0, 1}
      [] Tag(x) = "float" -> x[3] = 1 /\ x[2] \in {0, 1}
      [] Tag(x) = "complex" -> x[4] = 0 /\ x[3] = 1 /\ x[2] \in {0, 1}
      [] Tag(x) = "bool" -> TRUE
      [] OTHER -> FALSE

(* as bool_if_equal, without the comparison *)
bool_unchecked(x) == py_bool(x)

(* bool(x) if bool(x) == x else ValueError *)
bool_if_equal(x) == IF IsZeroOrOne(x) THEN py_bool(x) ELSE Exc("ValueError")

(* int(x) if int(x) == x else ValueError, for a float x *)
int_if_equal(x) ==
    IF Tag(py_int(x)) # "int" THEN py_int(x)
    ELSE IF IsIntegral(x) \/ Tag(x) = "bool" THEN py_int(x) ELSE Exc("ValueError")

(* pd.Timestamp.fromtimestamp(x, tz=timezone.utc), pd.Timedelta(seconds=x) *)
fromtimestamp(x) ==
    CASE Tag(x) = "int" -> DtCell(x[2], TRUE)
      [] Tag(x) = "float" -> FracDtCell(x[2], x[3], TRUE)
      [] Tag(x) = "bool" -> DtCell(BoolInt(x[2]), TRUE)
      [] OTHER -> Exc("TypeError")

Timedelta(x) ==
    CASE Tag(x) = "int" -> TdCell(x[2], 1)
      [] Tag(x) = "float" -> TdCell(x[2], x[3])
      [] Tag(x) = "bool" -> TdCell(BoolInt(x[2]), 1)
      [] OTHER -> Exc("TypeError")

(* x.real of a complex; x.timestamp() of a datetime; x.total_seconds() of  *)
(* a timedelta; AttributeError on an element without the method            *)
real(x) == FloatCell(x[2], x[3])
timestamp(x) == IF Tag(x) = "dt" THEN FloatCell(x[2], DtDen(x)) ELSE Exc("AttributeError")
total_seconds(x) == IF Tag(x) = "td" THEN FloatCell(x[2], x[3]) ELSE Exc("AttributeError")

(* str(int(x)) *)
str_of_int(x) == IF IsCell(py_int(x)) THEN py_str(py_int(x)) ELSE py_int(x)

(* the conversions of a number of seconds s, unless getting s has raised *)
seconds_to(to_type, s) ==
    IF ~IsCell(s) THEN s
    ELSE CASE to_type = "int" -> int_if_equal(s)
           [] to_type = "float" -> s
           [] to_type = "complex" -> py_complex(s)
           [] to_type = "bool" -> bool_if_equal(s)
           [] to_type = "datetime" -> fromtimestamp(s)
           [] to_type = "timedelta" -> Timedelta(s)

(* lines 11-155: CONVERSIONS[from_type][to_type](x) for an element x; a    *)
(* missing x gives np.nan or pd.NaT, or pd.NA where the table says so      *)
CONVERSIONS(from_type, to_type, x) ==
    IF IsNA(x)
    THEN IF to_type = "bool" \/ (to_type = "str" /\ from_type # "bool") THEN PdNA ELSE NA
    ELSE
    CASE from_type = "int" ->
            (CASE to_type = "float" -> py_float(x)
               [] to_type = "complex" -> py_complex(x)
               [] to_type = "str" -> str_of_int(x)
               [] to_type = "bool" -> bool_if_equal(x)
               [] to_type = "datetime" -> fromtimestamp(x)
               [] to_type = "timedelta" -> Timedelta(x))
      [] from_type = "float" ->
            (CASE to_type = "int" -> int_if_equal(x)
               [] to_type = "complex" -> py_complex(x)
               [] to_type = "str" -> py_str(x)
               [] to_type = "bool" -> bool_if_equal(x)
               [] to_type = "datetime" -> fromtimestamp(x)
               [] to_type = "timedelta" -> Timedelta(x))
      [] from_type = "complex" ->
            (CASE to_type = "int" ->
                     IF x[4] = 0 /\ x[3] = 1 THEN py_int(real(x)) ELSE Exc("ValueError")
               [] to_type = "float" -> IF x[4] = 0 THEN real(x) ELSE Exc("ValueError")
               [] to_type = "str" -> py_str(x)
               [] to_type = "bool" ->
                     IF IsZeroOrOne(x) THEN py_bool(real(x)) ELSE Exc("ValueError")
               [] to_type = "datetime" ->
                     IF x[4] = 0 THEN fromtimestamp(real(x)) ELSE Exc("ValueError")
               [] to_type = "timedelta" ->
                     IF x[4] = 0 THEN Timedelta(real(x)) ELSE Exc("ValueError"))
      [] from_type = "str" ->
            (CASE to_type = "int" -> py_int(x)
               [] to_type = "float" -> py_float(x)
               [] to_type = "complex" -> py_complex(x)
               [] to_type = "bool" ->
                     IF x[2] \in {"true", "t", "True"} THEN BoolCell(TRUE)
                     ELSE IF x[2] \in {"false", "f", "False"} THEN BoolCell(FALSE)
                     ELSE Exc("ValueError")
               [] to_type = "timedelta" -> seconds_to("timedelta", py_float(x)))
      [] from_type = "bool" ->
            (CASE to_type = "int" -> py_int(x)
               [] to_type = "float" -> py_float(x)
               [] to_type = "complex" -> py_complex(x)
               [] to_type = "str" -> py_str(x)
               [] to_type = "datetime" -> fromtimestamp(x)
               [] to_type = "timedelta" -> Timedelta(x))
      [] from_type = "datetime" ->
            (CASE to_type = "str" ->
                     IF Tag(x) = "dt" THEN py_str(x) ELSE Exc("AttributeError")
               [] to_type \in {"int", "float", "complex", "bool", "timedelta"} ->
                     seconds_to(to_type, timestamp(x)))
      [] from_type = "timedelta" ->
            (CASE to_type = "str" -> py_str(x)
               [] to_type \in {"int", "float", "complex", "bool", "datetime"} ->
                     seconds_to(to_type, total_seconds(x)))
      [] from_type = "object" ->
            (CASE to_type = "int" -> py_int(x)
               [] to_type = "float" -> py_float(x)
               [] to_type = "complex" -> py_complex(x)
               [] to_type = "str" -> py_str(x)
               [] to_type = "bool" -> py_bool(x)
               [] to_type = "datetime" -> Exc("AttributeError")
               [] to_type = "timedelta" -> Exc("AttributeError"))

(* as do_coercion, had a pd.NA result been refused *)
do_coercion_refusing_na(from_type, to_type, element) ==
    LET r == CONVERSIONS(from_type, to_type, element)
    IN IF r = PdNA THEN Exc("TypeError") ELSE r

(* lines 213-220: `result == ValueError` is False for every result but the *)
(* class ValueError itself (pd.NA, compared with a class, falls back to    *)
(* identity), so that a pd.NA, NaN or NaT result is returned as it is      *)
do_coercion(from_type, to_type, element) ==
    CONVERSIONS(from_type, to_type, element)

(* a column handed back to the caller: `aliased` when it is the caller's   *)
(* own column object                                                       *)
Returned(column) ==
    [op |-> "coerce_dtypes", status |-> "ok", value |-> column, aliased |-> FALSE]
Raised(kind) ==
    [op |-> "coerce_dtypes", status |-> kind, value |-> "none", aliased |-> FALSE]

(* column.apply(f), given f's outcome for every element: the first        *)
(* exception in element order ends it; the results are stored as pandas    *)
(* infers from them, in object storage when pd.NA is among them            *)
apply(out, null_storage) ==
    LET bad == {i \in DOMAIN out : Tag(out[i]) = "raise"}
        cells == [i \in DOMAIN out |-> IF out[i] = PdNA THEN NA ELSE out[i]]
    IN IF bad # {}
       THEN Raised(out[CHOOSE i \in bad : \A j \in bad : i <= j][2])
       ELSE IF \E i \in DOMAIN out : out[i] = PdNA
       THEN Returned([storage |-> "object", cells |-> cells])
       ELSE Returned(maybe_convert_objects(cells, null_storage))

(* pd.to_datetime(column, infer_datetime_format=True) and                  *)
(* pd.to_timedelta(column) on a column of strings                          *)
str_to_datetime(cells) ==
    LET parse(x) == IF IsNA(x) THEN NA
                    ELSE IF Tag(read_field("timestamp", x[2])) = "dt"
                    THEN read_field("timestamp", x[2])
                    ELSE Exc("ValueError")
    IN apply([i \in DOMAIN cells |-> parse(cells[i])], "datetime64[ns]")

str_to_timedelta(cells) ==
    LET parse(x) == IF IsNA(x) THEN NA
                    ELSE IF SpellsInt(x[2]) THEN TdCell(IntOfText(x[2]), 1000000000)
                    ELSE Exc("ValueError")
    IN apply([i \in DOMAIN cells |-> parse(cells[i])], "timedelta64[ns]")

(* as copy, had the column itself been returned *)
no_copy(column) ==
    [op |-> "coerce_dtypes", status |-> "ok", value |-> column, aliased |-> TRUE]

(* Series.copy(): a new column with the same storage and elements *)
copy(column) == Returned(column)

(* as astype_object, had astype handed back a column already in object     *)
(* storage as it is                                                        *)
astype_object_no_copy(column) ==
    [op |-> "coerce_dtypes", status |-> "ok",
     value |-> [column EXCEPT !.storage = "object"],
     aliased |-> column.storage = "object"]

(* Series.astype(np.dtype("O")): a new column, the elements as they are *)
astype_object(column) == Returned([column EXCEPT !.storage = "object"])

(* lines 212-232 *)
coerce_column(column, to_type) ==
    IF to_type = "object" THEN astype_object(column)
    ELSE LET checked == get_series_dtype(column)
             from_type == checked.value
             f(x) == do_coercion(from_type, to_type, x)
         IN IF checked.status # "ok" THEN Raised(checked.status)
            ELSE IF from_type = to_type THEN copy(column)
            ELSE IF from_type = "str" /\ to_type = "datetime"
            THEN str_to_datetime(column.cells)
            ELSE IF from_type = "str" /\ to_type = "timedelta"
            THEN str_to_timedelta(column.cells)
            ELSE apply([i \in DOMAIN column.cells |-> f(column.cells[i])],
                       IF to_type \in {"datetime", "timedelta"}
                       THEN "datetime64[ns]" ELSE "float64")

(* coerce_dtypes(series, typespec), lines 291-299: the column is           *)
(* call.column; no statement of it assigns into the column                 *)
CoerceDtypes(typespec) ==
    /\ call.op = "column"
    /\ call' = [call EXCEPT !.typespec = typespec]
    /\ result' = coerce_column(call.column, typespec)
    /\ UNCHANGED <<store, data, dtypes, file, given, view>>

(* the caller's result.iloc[i] = None on the column it was handed back *)
WriteResult ==
    /\ call.op = "column"
    /\ result.op = "coerce_dtypes" /\ result.status = "ok"
    /\ \E i \in DOMAIN result.value.cells :
          /\ ~IsNA(result.value.cells[i])
          /\ result' = [result EXCEPT !.value.cells[i] = NA, !.op = "written"]
          /\ IF result.aliased
             THEN call' = [call EXCEPT !.column.cells[i] = NA]
             ELSE UNCHANGED call
    /\ UNCHANGED <<store, data, dtypes, file, given, view>>

(***************************************************************************)
(* check_dtypes, coerce_dtypes and convert_dtypes on a table: a DataFrame  *)
(* is a function from its column names to columns of one length. A         *)
(* typespec is [kind |-> "type", type |-> t] or [kind |-> "dict", items |->*)
(* the <<column name, type>> pairs in the order of the dict]               *)
(***************************************************************************)
TableRaised(op, kind, col_name) ==
    [op |-> op, status |-> kind, value |-> "none", column |-> col_name]
TableReturned(op, value) ==
    [op |-> op, status |-> "ok", value |-> value, column |-> "none"]

(* lines 251-254: the dict of every column's type *)
check_dtypes_table(table) ==
    IF \E c \in DOMAIN table : get_series_dtype(table[c]).status # "ok"
    THEN TableRaised("check_dtypes", "TypeError", "none")
    ELSE TableReturned("check_dtypes",
                       [c \in DOMAIN table |-> get_series_dtype(table[c]).value])

(* line 310: _coerce_column(data[col_name], ts); a name that is no column  *)
(* of the table is a KeyError                                              *)
getitem(table, col_name, to_type) ==
    IF col_name \in DOMAIN table THEN coerce_column(table[col_name], to_type)
    ELSE Raised("KeyError")

(* pd.concat(result, axis=1): the columns under their keys, in the order   *)
(* of the dict; there is nothing to concatenate in an empty dict           *)
concat(op, columns) ==
    IF columns = <<>> THEN TableRaised(op, "ValueError", "none")
    ELSE TableReturned(op, columns)

(* lines 307-317, given the outcome of _coerce_column for every item of    *)
(* the dict: the first column that raises ends the loop; its ValueError is *)
(* raised again with the column's name, any other exception leaves as it   *)
(* is                                                                      *)
coerce_items(op, items, out) ==
    LET bad == {i \in DOMAIN items : out[i].status # "ok"}
        first == CHOOSE i \in bad : \A j \in bad : i <= j
    IN IF bad = {}
       THEN concat(op, [i \in DOMAIN items |-> <<items[i][1], out[i].value>>])
       ELSE IF out[first].status = "ValueError"
       THEN TableRaised(op, "ValueError", items[first][1])
       ELSE TableRaised(op, out[first].status, "none")

(* lines 305-322: a typespec that is no dict is a TypeError *)
coerce_dtypes_table(op, table, typespec) ==
    IF typespec.kind # "dict" THEN TableRaised(op, "TypeError", "none")
    ELSE coerce_items(op, typespec.items,
                      [i \in DOMAIN typespec.items |->
                          getitem(table, typespec.items[i][1], typespec.items[i][2])])

(* the parameters of coerce_dtypes, lines 283-290 *)
Parameters ==
    {"data", "typespec", "downcast", "signed", "datetime_format", "object_method"}

(* line 331: coerce_dtypes(data, **kwargs) binds every column name as a    *)
(* keyword: a name that is no parameter, or is `data`, is a TypeError of   *)
(* the call, as is a call without `typespec`; a column called typespec     *)
(* hands its type in as the typespec                                       *)
bind_keywords(table, kwargs) ==
    IF kwargs.status # "ok" THEN TableRaised("convert_dtypes", kwargs.status, "none")
    ELSE IF \E name \in DOMAIN kwargs.value : name \notin Parameters \ {"data"}
    THEN TableRaised("convert_dtypes", "TypeError", "none")
    ELSE IF "typespec" \notin DOMAIN kwargs.value
    THEN TableRaised("convert_dtypes", "TypeError", "none")
    ELSE coerce_dtypes_table("convert_dtypes", table,
                             [kind |-> "type", type |-> kwargs.value["typespec"]])

(* lines 330-331 *)
dtype_convert_dtypes(table) == bind_keywords(table, check_dtypes_table(table))

(* check_dtypes(table) *)
CheckTable ==
    /\ call.op = "table"
    /\ result' = check_dtypes_table(call.table)
    /\ UNCHANGED <<store, data, dtypes, call, file, given, view>>

(* coerce_dtypes(table, typespec) *)
CoerceTable(typespec) ==
    /\ call.op = "table"
    /\ call' = [call EXCEPT !.typespec = typespec]
    /\ result' = coerce_dtypes_table("coerce_dtypes", call.table, typespec)
    /\ UNCHANGED <<store, data, dtypes, file, given, view>>

(* convert_dtypes(table) *)
ConvertDtypes ==
    /\ call.op = "table"
    /\ result' = dtype_convert_dtypes(call.table)
    /\ UNCHANGED <<store, data, dtypes, call, file, given, view>>

(***************************************************************************)
(* Specification                                                           *)
(***************************************************************************)
Next ==
    \/ \E table \in Tables \cup MismatchedTables : Construct(table)
    \/ ConstructEmpty
    \/ \E a \in AddRowArgs : AddRow(a)
    \/ MostRecent

Spec == Init /\ [][Next]_vars

(* a store that starts empty and grows by add_row alone *)
NextAppend ==
    \/ ConstructEmpty
    \/ \E a \in AddRowArgs : AddRow(a)
    \/ MostRecent

SpecAppend == Init /\ [][NextAppend]_vars

(* paths handed to to_csv and from_csv *)
CsvPath == [type |-> "Path", suffix |-> ".csv"]
CsvPaths == {CsvPath, [type |-> "Path", suffix |-> ".txt"],
             [type |-> "str", suffix |-> ".csv"]}

(* the video_ids handed to to_csv: up to MaxIds of them *)
(* ids of the right form, possibly followed by one that is not *)
VideoIdLists ==
    LET good == UNION {[1..n -> GoodIds] : n \in 0..MaxIds}
    IN good \cup {Append(ids, x) : ids \in {g \in good : Len(g) < MaxIds},
                                   x \in {StrCell("short"), IntCell(7)}}

ToCsvCalls ==
    {<<CsvPath, ids>> : ids \in VideoIdLists}
    \cup {<<path, <<>>>> : path \in CsvPaths \ {CsvPath}}

(* the add_row calls and the tables of the stores that are exported *)
CsvArgs ==
    {Row(StrCell("vid_aaaaaaa"), DtCell(t, FALSE), IntCell(0), NA, NA, NA) : t \in 1..Now}
    \cup {Row(StrCell("vid_bbbbbbb"), DtCell(t, FALSE), IntCell(0), NA, IntCell(1), IntCell(1)) :
             t \in 1..Now}
SmallTables ==
    {[columns |-> ExpectedSet, index |-> <<0>>, rows |-> <<r>>] : r \in TableRows}

(* stores that are written to the .csv file and read back *)
NextCsv ==
    \/ ConstructEmpty
    \/ \E table \in SmallTables : Construct(table)
    \/ \E a \in CsvArgs : AddRow(a)
    \/ \E c \in ToCsvCalls : ToCsv(c[1], c[2])
    \/ \E path \in CsvPaths : FromCsv(path)

SpecCsv == Init /\ [][NextCsv]_vars

(* stores whose tables are also in the caller's hands *)
NextOwner ==
    \/ ConstructEmpty
    \/ \E table \in SmallTables : Construct(table)
    \/ \E a \in CsvArgs : AddRow(a)
    \/ DataAccessor
    \/ MutateView
    \/ MutateGiven

SpecOwner == Init /\ [][NextOwner]_vars

(* the columns handed to check_dtypes and coerce_dtypes: per storage, the   *)
(* elements that storage can hold                                          *)
StorageCells ==
    [s \in {"int64", "float64", "complex128", "bool", "datetime64[ns]",
            "datetime64[ns, UTC]", "timedelta64[ns]", "object"} |->
        CASE s = "int64" -> {IntCell(0), IntCell(1), IntCell(2)}
          [] s = "float64" -> {FloatCell(1, 1), FloatCell(1, 2), FloatCell(2, 1), NA}
          [] s = "complex128" ->
                {ComplexCell(1, 1, 0), ComplexCell(1, 2, 0), ComplexCell(1, 1, 1),
                 ComplexCell(2, 1, 0), NA}
          [] s = "bool" -> {BoolCell(TRUE), BoolCell(FALSE)}
          [] s = "datetime64[ns]" -> {DtCell(1, FALSE), FracDtCell(1, 2, FALSE), NA}
          [] s = "datetime64[ns, UTC]" -> {DtCell(1, TRUE), FracDtCell(1, 2, TRUE), NA}
          [] s = "timedelta64[ns]" -> {TdCell(1, 1), TdCell(1, 2), NA}
          [] s = "object" ->
                {IntCell(1), FloatCell(1, 2), ComplexCell(1, 1, 1), StrCell("short"),
                 BoolCell(TRUE), DtCell(1, FALSE), DtCell(1, TRUE), TdCell(1, 1),
                 ObjCell, NA}]

(* the elements of a column of text: a truth value, a timestamp *)
StringCells == {StrCell("true"), StrCell("T1"), NA}

Columns ==
    UNION ({{[storage |-> s, cells |-> cells] : cells \in [1..n -> StorageCells[s]]} :
               s \in DOMAIN StorageCells, n \in 0..MaxLen}
           \cup {{[storage |-> "object", cells |-> cells] : cells \in [1..n -> StringCells]} :
                    n \in 0..MaxLen})

InitDtype ==
    /\ store = "none"
    /\ data = <<>>
    /\ dtypes = [c \in ExpectedSet |-> "none"]
    /\ call \in {[op |-> "column", column |-> column, typespec |-> "none"] :
                   column \in Columns}
    /\ result = NoResult
    /\ file = NoFile
    /\ given = NoTable
    /\ view = NoTable

(* check_dtypes and coerce_dtypes on one column *)
NextDtype ==
    \/ CheckDtypes
    \/ \E typespec \in Types : CheckDtypesIs(typespec)
    \/ AppendMissing
    \/ \E typespec \in Types : CoerceDtypes(typespec)
    \/ WriteResult

SpecDtype == InitDtype /\ [][NextDtype]_vars

(* the tables handed to the table forms: two columns a and b, or one      *)
(* column called typespec                                                  *)
TableCells ==
    [s \in {"int64", "float64", "object"} |->
        CASE s = "int64" -> {IntCell(1)}
          [] s = "float64" -> {FloatCell(1, 2), NA}
          [] s = "object" -> {ObjCell, StrCell("true")}]

TableColumns(n) ==
    UNION {{[storage |-> s, cells |-> cells] : cells \in [1..n -> TableCells[s]]} :
              s \in DOMAIN TableCells}

DataFrames ==
    UNION {[{"a", "b"} -> TableColumns(n)] \cup [{"typespec"} -> TableColumns(n)] :
              n \in 1..MaxLen}

(* the typespecs: a type, or a dict over the names a and b *)
DictTypes == {"int", "bool", "object"}

Dicts ==
    {<<>>}
    \cup {<<<<c, t>>>> : c \in {"a", "b"}, t \in DictTypes}
    \cup {<<<<c[1], t1>>, <<c[2], t2>>>> :
             c \in {<<"a", "b">>, <<"b", "a">>}, t1 \in DictTypes, t2 \in DictTypes}

Typespecs ==
    {[kind |-> "type", type |-> t] : t \in DictTypes}
    \cup {[kind |-> "dict", items |-> items] : items \in Dicts}

InitTable ==
    /\ store = "none"
    /\ data = <<>>
    /\ dtypes = [c \in ExpectedSet |-> "none"]
    /\ call \in {[op |-> "table", table |-> table, typespec |-> [kind |-> "none"]] :
                   table \in DataFrames}
    /\ result = NoResult
    /\ file = NoFile
    /\ given = NoTable
    /\ view = NoTable

NextTable ==
    \/ CheckTable
    \/ \E typespec \in Typespecs : CoerceTable(typespec)
    \/ ConvertDtypes

SpecTable == InitTable /\ [][NextTable]_vars

(* the constructor alone *)
NextConstruct ==
    \/ \E table \in Tables \cup MismatchedTables : Construct(table)
    \/ ConstructEmpty

SpecConstruct == Init /\ [][NextConstruct]_vars

(***************************************************************************)
(* Properties                                                              *)
(***************************************************************************)
Key(r) == <<r.row.video_id, r.row.timestamp>>
Count(rows, row) == Cardinality({i \in 1..Len(rows) : rows[i].row = row})

(* the per-field rules for an observation, as the data model states them *)
FieldsValid(a) ==
    /\ Tag(a.video_id) = "str" /\ Len(a.video_id[2]) = 11
    /\ Tag(a.timestamp) = "dt" /\ a.timestamp[2] <= Now
    /\ Tag(a.views) = "int" /\ a.views[2] >= 0
    /\ \/ IsNA(a.rating)
       \/ Tag(a.rating) = "int" /\ 0 <= a.rating[2] /\ a.rating[2] <= 5
       \/ Tag(a.rating) = "float" /\ 0 <= a.rating[2] /\ a.rating[2] <= 5 * a.rating[3]
    /\ IsNA(a.likes) \/ (Tag(a.likes) = "int" /\ a.likes[2] >= 0)
    /\ IsNA(a.dislikes) \/ (Tag(a.dislikes) = "int" /\ a.dislikes[2] >= 0)

(* every count of the call fits the Int64 columns *)
FitsInt64(a) ==
    \A c \in {"views", "likes", "dislikes"} :
        Tag(a[c]) = "int" => a[c][2] <= Int64Max

(* C1: no two rows of a store share the same (video_id, timestamp) pair;   *)
(* a table with two such rows does not yield a store holding both          *)
C1_UniqueKeys ==
    store = "built" =>
        \A i, j \in 1..Len(data) : i # j => Key(data[i]) # Key(data[j])

(* C2: add_row is all-or-nothing: when it raises, the rows, their order    *)
(* and the column dtypes are what they were before the call                *)
C2_AddRowAllOrNothing ==
    [][\A a \in AddRowArgs :
          (AddRow(a) /\ result'.status # "ok") => (data' = data /\ dtypes' = dtypes)]_vars

(* C3: add_row with the key of a stored row raises the duplicate-key       *)
(* error; add_row with a stored video_id and another valid, timezone-aware,*)
(* non-future timestamp succeeds and adds exactly one row                  *)
C3_DuplicateRejectedNewTimestampAccepted ==
    [][\A a \in AddRowArgs :
          (AddRow(a) /\ FieldsValid(a) /\ FitsInt64(a)
              /\ ~(DerivesRating(a) /\ a.likes[2] + a.dislikes[2] = 0)) =>
            /\ (\E i \in 1..Len(data) : Key(data[i]) = <<a.video_id, a.timestamp>>)
                  => (result'.status = "ValueError" /\ result'.what = "duplicate")
            /\ (/\ a.video_id \in VideoIds(data)
                /\ \A i \in 1..Len(data) :
                      data[i].row.video_id = a.video_id
                         => data[i].row.timestamp[2] # a.timestamp[2])
                  => (result'.status = "ok" /\ Len(data') = Len(data) + 1)]_vars

(* C4: with rating absent and likes and dislikes both present add_row      *)
(* succeeds and stores rating = 5 * likes / (likes + dislikes); a given    *)
(* rating is stored as given; otherwise the stored rating is missing       *)
C4_RatingDerived ==
    [][\A a \in AddRowArgs :
          (AddRow(a) /\ FieldsValid(a) /\ FitsInt64(a) /\ ~a.timestamp[3]
              /\ ~RowExists(data, a.video_id, a.timestamp)) =>
            /\ result'.status = "ok"
            /\ \E i \in 1..Len(data') :
                  /\ Key(data'[i]) = <<a.video_id, a.timestamp>>
                  /\ LET r == data'[i].row.rating IN
                     IF DerivesRating(a)
                     THEN /\ Tag(r) = "float"
                          /\ r[2] * (a.likes[2] + a.dislikes[2]) = 5 * a.likes[2] * r[3]
                     ELSE IF IsNA(a.rating) THEN IsNA(r)
                     ELSE /\ Tag(r) = "float"
                          /\ r[2] * (IF Tag(a.rating) = "int" THEN 1 ELSE a.rating[3])
                               = a.rating[2] * r[3]]_vars

(* C5: after a successful construction and after every successful add_row  *)
(* the rows are in non-decreasing order of (video_id, timestamp)           *)
C5_RowsSorted ==
    (store = "built" /\ result.status = "ok" /\ result.op \in {"init", "add_row"}) =>
        \A i \in 1..(Len(data) - 1) : KeyLeq(data[i], data[i + 1])

(* C6: a successful add_row changes or removes no stored row, whatever     *)
(* labels the table carries: the rows afterwards are the rows before plus  *)
(* exactly the new one                                                     *)
C6_AddRowKeepsRows ==
    [][\A a \in AddRowArgs :
          (AddRow(a) /\ result'.status = "ok") =>
            /\ Len(data') = Len(data) + 1
            /\ \A i \in 1..Len(data) :
                  Count(data', data[i].row) >= Count(data, data[i].row)]_vars

(* C7: most_recent returns, for every video_id of the store and no other   *)
(* key, that video_id's row with the greatest timestamp                    *)
C7_MostRecent ==
    result.op = "most_recent" =>
        /\ result.status = "ok"
        /\ DOMAIN result.value = {id[2] : id \in VideoIds(data)}
        /\ \A i \in 1..Len(data) :
              LET got == result.value[data[i].row.video_id[2]] IN
              /\ got.video_id = data[i].row.video_id
              /\ got.timestamp[2] >= data[i].row.timestamp[2]
              /\ \E j \in 1..Len(data) : data[j].row = got

(* C8: every stored row satisfies the per-field rules: an 11-character     *)
(* video_id, non-negative counts, rating absent or within [0, 5]           *)
C8_RowsValid ==
    store = "built" =>
        \A i \in 1..Len(data) :
            LET r == data[i].row IN
            /\ Tag(r.video_id) = "str" /\ Len(r.video_id[2]) = 11
            /\ Tag(r.views) = "int" /\ r.views[2] >= 0
            /\ IsNA(r.likes) \/ (Tag(r.likes) = "int" /\ r.likes[2] >= 0)
            /\ IsNA(r.dislikes) \/ (Tag(r.dislikes) = "int" /\ r.dislikes[2] >= 0)
            /\ IsNA(r.rating)
                 \/ (Tag(r.rating) = "float" /\ 0 <= r.rating[2]
                        /\ r.rating[2] <= 5 * r.rating[3])

(* a table whose six columns hold data of the expected types: string       *)
(* video_id, timezone-aware datetime, integer counts, float rating, and    *)
(* nothing missing in a required column                                    *)
WellTyped(table) ==
    /\ table.columns = ExpectedSet
    /\ \A i \in 1..Len(table.rows) :
          LET r == table.rows[i] IN
          /\ Tag(r.video_id) = "str"
          /\ Tag(r.timestamp) = "dt" /\ r.timestamp[3]
          /\ Tag(r.views) = "int"
          /\ Tag(r.rating) \in {"float", "na"}
          /\ Tag(r.likes) \in {"int", "na"}
          /\ Tag(r.dislikes) \in {"int", "na"}

(* C9: construction from a well-typed table succeeds and the store holds   *)
(* exactly the input rows; construction with no table gives an empty store *)
(* with the six columns                                                    *)
C9_WellTypedTableAccepted ==
    /\ (call.op = "init" /\ WellTyped(call.table)) =>
          /\ result.status = "ok" /\ store = "built"
          /\ Len(data) = Len(call.table.rows)
          /\ \A i \in 1..Len(data) : data[i].row = call.table.rows[i]
    /\ call.op = "init_empty" =>
          (store = "built" /\ data = <<>> /\ DOMAIN dtypes = ExpectedSet)

(* C10: construction from a table whose column names are not the expected  *)
(* six raises the column-mismatch error and creates no store; the error    *)
(* names the missing columns, the extra columns, or both                   *)
C10_ColumnMismatchReported ==
    (call.op = "init" /\ call.table.columns # ExpectedSet) =>
        LET missing == ExpectedSet \ call.table.columns
            extra == call.table.columns \ ExpectedSet
        IN /\ store = "failed" /\ data = <<>>
           /\ result.status = "ValueError" /\ result.what = "columns"
           /\ missing # {} => ("missing" \in result.names /\ result.missing = missing)
           /\ extra # {} => ("extra" \in result.names /\ result.extra = extra)

C10_Witness ==
    /\ call.op = "init"
    /\ "dislikes" \notin call.table.columns
    /\ "extra_column" \in call.table.columns
    /\ result.names = {"missing", "extra"}
    /\ store = "failed"

(* the tag of the cells a column is expected to hold *)
ExpectedTag(c) ==
    CASE c = "video_id" -> "str"
      [] c = "timestamp" -> "dt"
      [] c = "rating" -> "float"
      [] OTHER -> "int"

(* the columns other than video_id holding a cell of another type *)
MistypedColumns(rows) ==
    {c \in ExpectedSet \ {"video_id"} :
        \E i \in 1..Len(rows) : ~IsNA(rows[i][c]) /\ Tag(rows[i][c]) # ExpectedTag(c)}

(* C11: construction from a table in which a column other than video_id    *)
(* holds non-missing data of another type than the column's expected one   *)
(* raises the type error naming such a column                              *)
C11_MistypedColumnRejected ==
    (/\ call.op = "init"
     /\ call.table.columns = ExpectedSet
     /\ MistypedColumns(call.table.rows) # {}
     /\ \A i \in 1..Len(call.table.rows) :
           /\ Tag(call.table.rows[i].video_id) = "str"
           /\ ~IsNA(call.table.rows[i].timestamp)) =>
        /\ store = "failed"
        /\ result.status = "TypeError"
        /\ result.what \in MistypedColumns(call.table.rows)

(* C12: construction from a table with a missing value in video_id,        *)
(* timestamp or views is rejected; missing values in rating, likes or      *)
(* dislikes are accepted                                                   *)
C12_RequiredColumnsHaveNoMissing ==
    (/\ call.op = "init"
     /\ call.table.columns = ExpectedSet
     /\ \E i \in 1..Len(call.table.rows) :
           \E c \in {"video_id", "timestamp", "views"} : IsNA(call.table.rows[i][c]))
        => (store = "failed" /\ result.status # "ok")

C14_ToCsvWritesSelectedRows ==
    [][(call'.op = "to_csv" /\ ToCsv(call'.csv_path, call'.video_ids)) =>
          LET ids == {call'.video_ids[k] : k \in 1..Len(call'.video_ids)}
              chosen == {i \in 1..Len(data) : ids = {} \/ data[i].row.video_id \in ids}
          IN /\ data' = data /\ dtypes' = dtypes /\ store' = store
             /\ (\E v \in ids : v \notin VideoIds(data)) =>
                   (result'.status # "ok" /\ file' = file)
             /\ result'.status # "ok" => file' = file
             /\ result'.status = "ok" =>
                   /\ file'.exists
                   /\ Len(file'.lines) = Cardinality(chosen)
                   /\ \A i \in chosen :
                         LET n == Cardinality({j \in chosen : j <= i}) IN
                         \A c \in ExpectedSet :
                             file'.lines[n][c] = Field(data[i].row[c])
             \* a valid path and ids of the store: the rows are written
             /\ (call'.csv_path = CsvPath /\ ids \subseteq VideoIds(data)
                    /\ \A v \in ids : Tag(v) = "str" /\ Len(v[2]) = 11)
                   => result'.status = "ok"]_vars

C14_Witness ==
    /\ call.op = "to_csv" /\ result.status = "ok"
    /\ Len(call.video_ids) > 0
    /\ Len(file.lines) > 0 /\ Len(file.lines) < Len(data)

(* C15: from_csv of the file that to_csv has just written succeeds and     *)
(* yields a store whose rows are exactly the exported rows, with equal     *)
(* values, absent rating, likes or dislikes included                       *)
C15_ExportImportRoundTrip ==
    [][(/\ call.op = "to_csv" /\ result.status = "ok"
        /\ call'.op = "from_csv" /\ call'.csv_path = CsvPath
        /\ FromCsv(call'.csv_path)) =>
          LET ids == {call.video_ids[k] : k \in 1..Len(call.video_ids)}
              chosen == {i \in 1..Len(data) : ids = {} \/ data[i].row.video_id \in ids}
          IN /\ result'.status = "ok"
             /\ Len(result'.value) = Cardinality(chosen)
             /\ \A i \in chosen :
                   result'.value[Cardinality({j \in chosen : j <= i})] = data[i].row]_vars

(* C16: the store is the sole mutator of its rows: the data accessor       *)
(* returns a copy holding the store's rows, a write to that copy or to the *)
(* table that was handed to the constructor never changes the store, and   *)
(* the rows of a store change in add_row alone                             *)
C16_StoreIsSoleMutator ==
    [][/\ (data' # data \/ dtypes' # dtypes) =>
             call'.op \in {"init", "init_empty", "add_row"}
       /\ call'.op = "data" => (view'.rows = data /\ data' = data)
       /\ call'.op \in {"mutate_view", "mutate_given"} =>
             (data' = data /\ (view' # view \/ given' # given))]_vars

C16_Witness ==
    /\ call.op \in {"mutate_view", "mutate_given"}
    /\ store = "built" /\ view.bound /\ given.bound
    /\ \A i \in 1..Len(data) : data[i].row.views # IntCell(-1)
    /\ \E i \in 1..Len(view.rows) : view.rows[i].row.views = IntCell(-1)
    /\ \E i \in 1..Len(given.rows) : given.rows[i].row.views = IntCell(-1)

(* C17: classification is total: for every well-formed column              *)
(* check_dtypes(column) returns one type of the enumeration and never      *)
(* raises the 'could not interpret series dtype' error                     *)
C17_ClassificationTotal ==
    result.op = "check_dtypes" => (result.status = "ok" /\ result.value \in Types)

AllMissing(column) ==
    Len(column.cells) > 0 /\ \A i \in DOMAIN column.cells : IsNA(column.cells[i])

(* C18: a column whose cells are all missing is classified object whatever *)
(* its storage, and adding a missing cell to a column does not change the  *)
(* column's classification                                                 *)
C18_AllMissingIsObject ==
    [][/\ (/\ result'.op = "check_dtypes" /\ AllMissing(call'.column)
           /\ call'.column.storage \in {"object", "float64", "complex128"}) =>
             result' = DtypeIs("object")
       /\ (result'.op = "append" /\ Len(call.column.cells) > 0) =>
             get_series_dtype(call'.column) = get_series_dtype(call.column)]_vars

C21_IdentityCoercion ==
    (/\ result.op = "coerce_dtypes"
     /\ get_series_dtype(call.column).status = "ok"
     /\ call.typespec = get_series_dtype(call.column).value) =>
        /\ result.status = "ok"
        /\ result.value.cells = call.column.cells
        /\ ~result.aliased

C21_Witness ==
    /\ result.op = "coerce_dtypes" /\ result.status = "ok"
    /\ call.typespec = "object"
    /\ get_series_dtype(call.column) = DtypeIs("object")
    /\ hasnans(call.column.cells)
    /\ ObjCell \in Present(call.column.cells)

(* C22: whenever coerce_dtypes(C, T) succeeds for a target T other than    *)
(* object, check_dtypes of the returned column is T                        *)
C22_CoerceThenClassify ==
    (/\ result.op = "coerce_dtypes" /\ result.status = "ok"
     /\ call.typespec # "object"
     /\ Present(call.column.cells) # {}) =>
        get_series_dtype(result.value) = DtypeIs(call.typespec)

(* the number an element stands for: <<numerator, denominator, imaginary   *)
(* part>>, a datetime as its Unix timestamp, a duration as its seconds     *)
Reading(c) ==
    CASE Tag(c) = "int" -> <<c[2], 1, 0>>
      [] Tag(c) = "float" -> <<c[2], c[3], 0>>
      [] Tag(c) = "complex" -> <<c[2], c[3], c[4]>>
      [] Tag(c) = "bool" -> <<BoolInt(c[2]), 1, 0>>
      [] Tag(c) = "dt" -> <<c[2], DtDen(c), 0>>
      [] Tag(c) = "td" -> <<c[2], c[3], 0>>

(* the element cannot be held by the target type as the value it is *)
Lossy(c, to_type) ==
    CASE to_type = "int" -> Reading(c)[2] # 1 \/ Reading(c)[3] # 0
      [] to_type = "float" -> Reading(c)[3] # 0
      [] to_type = "bool" ->
            ~(Reading(c)[1] \in {0, 1} /\ Reading(c)[2] = 1 /\ Reading(c)[3] = 0)
      [] OTHER -> FALSE

TypedStorages ==
    {"int64", "float64", "complex128", "bool", "datetime64[ns]", "datetime64[ns, UTC]",
     "timedelta64[ns]"}

(* C23: for a column of numbers, booleans, datetimes or durations and a    *)
(* target of int, float or bool: if some non-missing element would lose    *)
(* information coerce_dtypes raises ValueError and returns no column, and  *)
(* if none would it returns a column                                       *)
C23_LossyRejected ==
    (/\ result.op = "coerce_dtypes"
     /\ call.column.storage \in TypedStorages
     /\ call.typespec \in {"int", "float", "bool"}) =>
        IF \E c \in Present(call.column.cells) : Lossy(c, call.typespec)
        THEN result.status = "ValueError" /\ result.value = "none"
        ELSE result.status = "ok"

(* the column without its missing elements *)
DropMissing(column) ==
    [column EXCEPT !.cells = SelectSeq(column.cells, LAMBDA c : ~IsNA(c))]

C25_IntegralAndRealConditions ==
    result.op = "coerce_dtypes" =>
        LET present == Present(call.column.cells) IN
        /\ (/\ call.typespec = "int"
            /\ call.column.storage \in TypedStorages \ {"int64", "bool"}) =>
               (result.status = "ok" <=> \A c \in present : ~Lossy(c, "int"))
        /\ (call.typespec = "float" /\ call.column.storage = "complex128") =>
               (result.status = "ok" <=> \A c \in present : c[4] = 0)
        /\ (/\ call.typespec = "complex"
            /\ call.column.storage \in {"int64", "float64", "bool"}) =>
               /\ result.status = "ok"
               /\ \A c \in Present(result.value.cells) :
                     Reading(c) \in {Reading(x) : x \in present}

(* C26: a column of integers, floats or complex numbers coerces to bool    *)
(* exactly when every non-missing value is 0 or 1, 0 giving False and 1    *)
(* True, and is refused with ValueError otherwise; a column of booleans    *)
(* always coerces to int, float and complex, False giving 0 and True 1     *)
C26_BooleanCoercion ==
    result.op = "coerce_dtypes" =>
        LET cells == call.column.cells IN
        /\ (/\ call.typespec = "bool"
            /\ call.column.storage \in {"int64", "float64", "complex128"}) =>
               IF \A c \in Present(cells) : ~Lossy(c, "bool")
               THEN /\ result.status = "ok"
                    /\ \A i \in dropna(cells) :
                          result.value.cells[i] = BoolCell(Reading(cells[i])[1] = 1)
               ELSE result.status = "ValueError"
        /\ (/\ call.typespec \in {"int", "float", "complex"}
            /\ get_series_dtype(call.column) = DtypeIs("bool")) =>
               /\ result.status = "ok"
               /\ \A i \in dropna(cells) :
                     Reading(result.value.cells[i]) = <<BoolInt(cells[i][2]), 1, 0>>

C26_Witness ==
    /\ result.op = "coerce_dtypes" /\ result.status = "ok"
    /\ call.typespec = "bool"
    /\ call.column.storage = "complex128"
    /\ BoolCell(TRUE) \in Present(result.value.cells)

(* the values are of no one concrete type and are not all datetimes or     *)
(* numbers                                                                 *)
Opaque(cells) ==
    \/ ObjCell \in Present(cells)
    \/ /\ Cardinality(Tags(cells)) >= 2
       /\ ~(Tags(cells) \subseteq {"int", "float", "complex"})
       /\ ~(Tags(cells) \subseteq {"dt", "int", "float"})

C28_OpaqueNotCoerced ==
    (/\ result.op = "coerce_dtypes"
     /\ call.typespec # "object"
     /\ ObjCell \in Present(call.column.cells)
     /\ get_series_dtype(call.column) = DtypeIs("object")) =>
        result.status # "ok"

(* C29: coerce_dtypes(table, mapping) with a mapping that names columns of *)
(* the table: when every named column coerces on its own the result holds  *)
(* exactly the named columns, in the order of the mapping, each as its own *)
(* coercion returns it; when one does not the call raises an error that    *)
(* names a column whose coercion fails, and returns no table               *)
C29_BatchCoercion ==
    (/\ result.op = "coerce_dtypes"
     /\ call.typespec.kind = "dict"
     /\ call.typespec.items # <<>>
     /\ \A i \in DOMAIN call.typespec.items :
           call.typespec.items[i][1] \in DOMAIN call.table) =>
        LET items == call.typespec.items
            single == [i \in DOMAIN items |->
                          coerce_column(call.table[items[i][1]], items[i][2])]
            failing == {items[i][1] : i \in {j \in DOMAIN items : single[j].status # "ok"}}
        IN IF failing = {}
           THEN /\ result.status = "ok"
                /\ result.value = [i \in DOMAIN items |-> <<items[i][1], single[i].value>>]
           ELSE /\ result.status # "ok"
                /\ result.value = "none"
                /\ result.column \in failing

(* C30: convert_dtypes(table) returns a table with the columns of the      *)
(* input, each holding the elements it held and classified as it was       *)
C30_ConvertDtypes ==
    result.op = "convert_dtypes" =>
        /\ result.status = "ok"
        /\ {result.value[i][1] : i \in DOMAIN result.value} = DOMAIN call.table
        /\ \A i \in DOMAIN result.value :
              LET before == call.table[result.value[i][1]]
                  after == result.value[i][2]
              IN /\ after.cells = before.cells
                 /\ get_series_dtype(after) = get_series_dtype(before)

====
